---- MODULE Spec2Model ----
(***************************************************************************)
(* Model of the order manager of backend/trading/advanced_trading_engine.py *)
(* (AdvancedOrderManager, AlgorithmicTrading, TradingAPI).                   *)
(*                                                                           *)
(* Units.  Prices of a symbol are counted in thousandths of that symbol's   *)
(* base price, so that bid = base * 0.999 and ask = base * 1.001 are the    *)
(* integers 999 and 1001.  Quantities are counted in an arbitrary lot.      *)
(* Fee rates are counted in 1/FeeScale, so a fee is an integer number of    *)
(* (lot * price unit / FeeScale).  uuid4 identifiers are modelled by the    *)
(* position of the order (trade) in the order store (trade log): fresh,     *)
(* never reused.  Of the wall clock only whether the end-of-day cutoff       *)
(* (23:59:59, Order.__post_init__) has passed is modelled.                  *)
(***************************************************************************)
EXTENDS Integers, Sequences, FiniteSets, TLC

VARIABLES orders, trades, market_data, order_books, last, oco_pairs, thr, clock,
          algo

vars == <<orders, trades, market_data, order_books, last, oco_pairs, thr, clock,
         algo>>

(***************************************************************************)
(* Bounds of the model.                                                     *)
(***************************************************************************)
MaxOrders == 2
MaxConcOrders == 2
NumThreads == 2
MaxAlgoOrders == 21
MaxRuns == 1

\* Minutes of wall-clock time followed while a strategy call runs.
MaxMinutes == 2

(***************************************************************************)
(* Optional values (Python None).                                           *)
(***************************************************************************)
None == <<>>
Some(x) == <<x>>
IsNone(v) == v = <<>>
Val(v) == v[1]
\* Python truthiness of an Optional[float]: None and 0 are falsy.
Truthy(v) == ~IsNone(v) /\ Val(v) # 0

(***************************************************************************)
(* Enumerations.                                                            *)
(***************************************************************************)
OrderType == {"market", "limit", "stop_loss", "take_profit", "trailing_stop",
              "oco", "iceberg", "twap", "vwap"}
OrderSide == {"buy", "sell"}
OrderStatus == {"pending", "partially_filled", "filled", "cancelled",
                "rejected", "expired"}
TimeInForce == {"gtc", "ioc", "fok", "day"}

(***************************************************************************)
(* AdvancedOrderManager.__init__ / _initialize_market_data.                 *)
(***************************************************************************)
symbols == {"BTC/DGD", "ETH/DGD", "ADA/DGD", "DOT/DGD", "LINK/DGD"}
BasePrice == 1000
FeeScale == 10000
maker_fee == 10
taker_fee == 15

initialize_market_data ==
    [s \in symbols |-> [bid  |-> (BasePrice * 999) \div 1000,
                        ask  |-> (BasePrice * 1001) \div 1000,
                        last |-> BasePrice]]

\* _generate_order_book: level i of a side is i + 1 thousandths away from
\* the base price.  The quantity of a level is drawn at random and read by
\* no operation; like volume_24h and change_24h it is left out.
depth == 10

\* A book whose bids start with the level farthest from the base price.
generate_order_book_bids_reversed(base_price) ==
    [bids |-> [i \in 1 .. depth |->
                 [price |-> (base_price * (1000 - (depth + 1 - i))) \div 1000]],
     asks |-> [i \in 1 .. depth |->
                 [price |-> (base_price * (1000 + i)) \div 1000]]]

generate_order_book(base_price) ==
    [bids |-> [i \in 1 .. depth |->
                 [price |-> (base_price * (1000 - i)) \div 1000]],
     asks |-> [i \in 1 .. depth |->
                 [price |-> (base_price * (1000 + i)) \div 1000]]]

initialize_order_books == [s \in symbols |-> generate_order_book(BasePrice)]

(***************************************************************************)
(* Order.__init__ / __post_init__ as called by place_order (lines 152-166). *)
(***************************************************************************)
NewOrder(id, d) ==
    [id |-> id,
     user_id |-> d.user_id,
     symbol |-> d.symbol,
     side |-> d.side,
     order_type |-> d.order_type,
     quantity |-> d.quantity,
     price |-> d.price,
     stop_price |-> d.stop_price,
     trail_amount |-> d.trail_amount,
     trail_percent |-> d.trail_percent,
     time_in_force |-> d.time_in_force,
     status |-> "pending",
     filled_quantity |-> 0,
     average_fill_price |-> 0,
     expires_at |-> IF d.time_in_force = "day" THEN "23:59:59" ELSE "none",
     parent_order_id |-> None]

\* The Order(...) expression of place_order raises KeyError when one of the
\* keys read with order_data[...] is missing, and ValueError when side,
\* order_type or time_in_force is not a value of its enumeration.
RequiredKeys == {"user_id", "symbol", "side", "order_type", "quantity"}

\* Order(...) accepting any value for the enumerated fields.
Constructible_enums_unchecked(d) == RequiredKeys \subseteq DOMAIN d

Constructible(d) ==
    /\ RequiredKeys \subseteq DOMAIN d
    /\ d.side \in OrderSide
    /\ d.order_type \in OrderType
    /\ d.time_in_force \in TimeInForce

(***************************************************************************)
(* AdvancedOrderManager._validate_order.                                    *)
(***************************************************************************)
\* validate_order without its quantity check (lines 207-209 left out).
validate_order_no_quantity_check(md, order) ==
    IF order.symbol \notin DOMAIN md
    THEN [valid |-> FALSE, error |-> "Invalid symbol"]
    ELSE IF order.order_type = "limit"
            /\ (~Truthy(order.price) \/ Val(order.price) <= 0)
    THEN [valid |-> FALSE, error |-> "Limit orders require a valid price"]
    ELSE IF order.order_type \in {"stop_loss", "take_profit"}
            /\ (~Truthy(order.stop_price) \/ Val(order.stop_price) <= 0)
    THEN [valid |-> FALSE, error |-> "Stop orders require a valid stop price"]
    ELSE [valid |-> TRUE, error |-> ""]

\* validate_order with the quantity check made before the symbol check.
validate_order_quantity_first(md, order) ==
    IF order.quantity <= 0
    THEN [valid |-> FALSE, error |-> "Quantity must be positive"]
    ELSE IF order.symbol \notin DOMAIN md
    THEN [valid |-> FALSE, error |-> "Invalid symbol"]
    ELSE IF order.order_type = "limit"
            /\ (~Truthy(order.price) \/ Val(order.price) <= 0)
    THEN [valid |-> FALSE, error |-> "Limit orders require a valid price"]
    ELSE IF order.order_type \in {"stop_loss", "take_profit"}
            /\ (~Truthy(order.stop_price) \/ Val(order.stop_price) <= 0)
    THEN [valid |-> FALSE, error |-> "Stop orders require a valid stop price"]
    ELSE IF order.order_type = "trailing_stop"
            /\ ~Truthy(order.trail_amount) /\ ~Truthy(order.trail_percent)
    THEN [valid |-> FALSE,
          error |-> "Trailing stop orders require trail amount or trail percent"]
    ELSE [valid |-> TRUE, error |-> ""]

validate_order(md, order) ==
    IF order.symbol \notin DOMAIN md
    THEN [valid |-> FALSE, error |-> "Invalid symbol"]
    ELSE IF order.quantity <= 0
    THEN [valid |-> FALSE, error |-> "Quantity must be positive"]
    ELSE IF order.order_type = "limit"
            /\ (~Truthy(order.price) \/ Val(order.price) <= 0)
    THEN [valid |-> FALSE, error |-> "Limit orders require a valid price"]
    ELSE IF order.order_type \in {"stop_loss", "take_profit"}
            /\ (~Truthy(order.stop_price) \/ Val(order.stop_price) <= 0)
    THEN [valid |-> FALSE, error |-> "Stop orders require a valid stop price"]
    ELSE IF order.order_type = "trailing_stop"
            /\ ~Truthy(order.trail_amount) /\ ~Truthy(order.trail_percent)
    THEN [valid |-> FALSE,
          error |-> "Trailing stop orders require trail amount or trail percent"]
    ELSE [valid |-> TRUE, error |-> ""]

(***************************************************************************)
(* Trade(...) as constructed by the two execution methods.                  *)
(***************************************************************************)
NewTrade(id, order, price, rate) ==
    [id |-> id,
     order_id |-> order.id,
     symbol |-> order.symbol,
     side |-> order.side,
     quantity |-> order.quantity,
     price |-> price,
     fee |-> order.quantity * price * rate,
     fee_currency |-> "DGD"]

(***************************************************************************)
(* AdvancedOrderManager._execute_market_order: the state after it, as the   *)
(* pair of the order store and the trade log.                               *)
(***************************************************************************)
\* The two sides of the book swapped: a buy takes the bid, a sell the ask.
MarketExecutionPrice_swapped(md, order) ==
    IF order.side = "buy" THEN md[order.symbol].bid ELSE md[order.symbol].ask

MarketExecutionPrice(md, order) ==
    IF order.side = "buy" THEN md[order.symbol].ask ELSE md[order.symbol].bid

\* execute_market_order without line 247 (the trade is never appended).
execute_market_order_no_append(md, os, ts, id) ==
    [orders |-> [os EXCEPT ![id].filled_quantity = os[id].quantity,
                           ![id].average_fill_price =
                               MarketExecutionPrice(md, os[id]),
                           ![id].status = "filled"],
     trades |-> ts]

\* execute_market_order with the last traded price as the average fill
\* price of the order.
execute_market_order_average_last(md, os, ts, id) ==
    LET order == os[id]
        execution_price == MarketExecutionPrice(md, order)
        trade == NewTrade(Len(ts) + 1, order, execution_price, taker_fee)
    IN [orders |-> [os EXCEPT ![id].filled_quantity = order.quantity,
                              ![id].average_fill_price = md[order.symbol].last,
                              ![id].status = "filled"],
        trades |-> Append(ts, trade)]

\* execute_market_order with the new trade put at the head of the log.
execute_market_order_prepend(md, os, ts, id) ==
    LET order == os[id]
        execution_price == MarketExecutionPrice(md, order)
        trade == NewTrade(Len(ts) + 1, order, execution_price, taker_fee)
    IN [orders |-> [os EXCEPT ![id].filled_quantity = order.quantity,
                              ![id].average_fill_price = execution_price,
                              ![id].status = "filled"],
        trades |-> <<trade>> \o ts]

execute_market_order(md, os, ts, id) ==
    LET order == os[id]
        execution_price == MarketExecutionPrice(md, order)
        trade == NewTrade(Len(ts) + 1, order, execution_price, taker_fee)
    IN [orders |-> [os EXCEPT ![id].filled_quantity = order.quantity,
                              ![id].average_fill_price = execution_price,
                              ![id].status = "filled"],
        trades |-> Append(ts, trade)]

(***************************************************************************)
(* AdvancedOrderManager._check_limit_order_execution.                       *)
(***************************************************************************)
\* The crossing test with strict comparisons.
can_execute_strict(md, order) ==
    \/ order.side = "buy" /\ md[order.symbol].ask < Val(order.price)
    \/ order.side = "sell" /\ md[order.symbol].bid > Val(order.price)

can_execute(md, order) ==
    \/ order.side = "buy" /\ md[order.symbol].ask <= Val(order.price)
    \/ order.side = "sell" /\ md[order.symbol].bid >= Val(order.price)

\* An execution that fills a crossed order of more than one unit only in
\* part.
check_limit_order_execution_partial(md, os, ts, id) ==
    LET order == os[id]
        part == IF order.quantity > 1 THEN order.quantity - 1 ELSE order.quantity
        trade == [NewTrade(Len(ts) + 1, order, Val(order.price), maker_fee)
                    EXCEPT !.quantity = part]
    IN IF can_execute(md, order)
       THEN [orders |-> [os EXCEPT ![id].filled_quantity = part,
                                   ![id].average_fill_price = Val(order.price),
                                   ![id].status = IF part < order.quantity
                                                  THEN "partially_filled"
                                                  ELSE "filled"],
             trades |-> Append(ts, trade)]
       ELSE [orders |-> os, trades |-> ts]

check_limit_order_execution(md, os, ts, id) ==
    LET order == os[id]
        trade == NewTrade(Len(ts) + 1, order, Val(order.price), maker_fee)
    IN IF can_execute(md, order)
       THEN [orders |-> [os EXCEPT ![id].filled_quantity = order.quantity,
                                   ![id].average_fill_price = Val(order.price),
                                   ![id].status = "filled"],
             trades |-> Append(ts, trade)]
       ELSE [orders |-> os, trades |-> ts]

(***************************************************************************)
(* place_order, lines 182-186: the immediate execution attempt on the       *)
(* stored order.                                                            *)
(***************************************************************************)
\* The dispatch of lines 183-186 with stop orders executed at once as market
\* orders.
TryExecute_stops_at_market(md, os, ts, id) ==
    IF os[id].order_type \in {"market", "stop_loss", "take_profit"}
    THEN execute_market_order(md, os, ts, id)
    ELSE IF os[id].order_type = "limit"
    THEN check_limit_order_execution(md, os, ts, id)
    ELSE [orders |-> os, trades |-> ts]

TryExecute(md, os, ts, id) ==
    IF os[id].order_type = "market" THEN execute_market_order(md, os, ts, id)
    ELSE IF os[id].order_type = "limit"
    THEN check_limit_order_execution(md, os, ts, id)
    ELSE [orders |-> os, trades |-> ts]

(***************************************************************************)
(* place_order as a function of the state and the order_data dictionary:    *)
(* the order store, the trade log and the returned dictionary.              *)
(***************************************************************************)
Result(op, ok, id, user, status, error) ==
    [op |-> op, success |-> ok, order_id |-> id, user_id |-> user,
     status |-> status, error |-> error]

\* place_order storing the order of a failed validation as it was
\* constructed, without line 171.
place_order_rejected_stored_pending(md, os, ts, d) ==
    IF ~Constructible(d)
    THEN [orders |-> os, trades |-> ts,
          result |-> Result("place_order", FALSE, 0,
                            IF "user_id" \in DOMAIN d THEN d.user_id ELSE "",
                            "", "exception")]
    ELSE
      LET id == Len(os) + 1
          order == NewOrder(id, d)
          validation_result == validate_order(md, order)
      IN IF ~validation_result.valid
         THEN [orders |-> Append(os, order),
               trades |-> ts,
               result |-> Result("place_order", FALSE, id, d.user_id, "",
                                 validation_result.error)]
         ELSE LET ex == TryExecute(md, Append(os, order), ts, id)
              IN [orders |-> ex.orders,
                  trades |-> ex.trades,
                  result |-> Result("place_order", TRUE, id, d.user_id,
                                    ex.orders[id].status, "")]

place_order(md, os, ts, d) ==
    IF ~Constructible(d)
    THEN [orders |-> os, trades |-> ts,
          result |-> Result("place_order", FALSE, 0,
                            IF "user_id" \in DOMAIN d THEN d.user_id ELSE "",
                            "", "exception")]
    ELSE
      LET id == Len(os) + 1
          order == NewOrder(id, d)
          validation_result == validate_order(md, order)
      IN IF ~validation_result.valid
         THEN [orders |-> Append(os, [order EXCEPT !.status = "rejected"]),
               trades |-> ts,
               result |-> Result("place_order", FALSE, id, d.user_id, "",
                                 validation_result.error)]
         ELSE LET ex == TryExecute(md, Append(os, order), ts, id)
              IN [orders |-> ex.orders,
                  trades |-> ex.trades,
                  result |-> Result("place_order", TRUE, id, d.user_id,
                                    ex.orders[id].status, "")]

(***************************************************************************)
(* cancel_order as a function of the state and its arguments.               *)
(***************************************************************************)
CancelBlocked(status) == status \in {"filled", "cancelled"}

\* The early returns without the ownership test of lines 291-292.
cancel_check_no_owner_check(os, order_id, user_id) ==
    IF order_id \notin DOMAIN os THEN "Order not found"
    ELSE IF CancelBlocked(os[order_id].status)
    THEN "Cannot cancel order with status"
    ELSE ""

\* lines 287-296: the early returns; "" when the call goes on to the write.
cancel_check(os, order_id, user_id) ==
    IF order_id \notin DOMAIN os THEN "Order not found"
    ELSE IF os[order_id].user_id # user_id THEN "Unauthorized"
    ELSE IF CancelBlocked(os[order_id].status)
    THEN "Cannot cancel order with status"
    ELSE ""

\* A write that cancels every open order of the caller, not only the target.
cancel_write_all_of_user(os, order_id) ==
    [k \in DOMAIN os |->
        IF os[k].user_id = os[order_id].user_id /\ ~CancelBlocked(os[k].status)
        THEN [os[k] EXCEPT !.status = "cancelled"]
        ELSE os[k]]

\* lines 298-299
cancel_write(os, order_id) == [os EXCEPT ![order_id].status = "cancelled"]

cancel_order(os, order_id, user_id) ==
    LET err == cancel_check(os, order_id, user_id)
    IN IF err # ""
       THEN [orders |-> os,
             result |-> Result("cancel_order", FALSE, order_id, user_id, "", err)]
       ELSE [orders |-> cancel_write(os, order_id),
             result |-> Result("cancel_order", TRUE, order_id, user_id, "", "")]

(***************************************************************************)
(* The queries: get_order_status, get_user_orders, get_user_trades and      *)
(* TradingAPI.get_order_book, as the dictionary each returns.  asdict of    *)
(* an order or trade is the record of its fields.                           *)
(***************************************************************************)
\* Python truthiness of an Optional[str]: None and "" are falsy.
StrTruthy(v) == ~IsNone(v) /\ Val(v) # ""

\* A lookup that returns the first stored order whatever the id asked for.
get_order_status_first(os, order_id) ==
    IF order_id \notin DOMAIN os
    THEN [op |-> "get_order_status", success |-> FALSE, order_id |-> order_id,
          error |-> "Order not found", order |-> None]
    ELSE [op |-> "get_order_status", success |-> TRUE, order_id |-> order_id,
          error |-> "", order |-> Some(os[1])]

get_order_status(os, order_id) ==
    IF order_id \notin DOMAIN os
    THEN [op |-> "get_order_status", success |-> FALSE, order_id |-> order_id,
          error |-> "Order not found", order |-> None]
    ELSE [op |-> "get_order_status", success |-> TRUE, order_id |-> order_id,
          error |-> "", order |-> Some(os[order_id])]

\* The listing without the owner test of lines 316-319.
get_user_orders_no_owner_filter(os, user_id, status_filter) ==
    LET ByStatus(order) == order.status = Val(status_filter)
    IN [op |-> "get_user_orders", success |-> TRUE, user_id |-> user_id,
        status_filter |-> status_filter,
        orders |-> IF StrTruthy(status_filter) THEN SelectSeq(os, ByStatus)
                   ELSE os]

get_user_orders(os, user_id, status_filter) ==
    LET ByUser(order) == order.user_id = user_id
        ByStatus(order) == order.status = Val(status_filter)
        user_orders == SelectSeq(os, ByUser)
    IN [op |-> "get_user_orders", success |-> TRUE, user_id |-> user_id,
        status_filter |-> status_filter,
        orders |-> IF StrTruthy(status_filter)
                   THEN SelectSeq(user_orders, ByStatus)
                   ELSE user_orders]

get_user_trades(os, ts, user_id) ==
    LET user_order_ids == {os[k].id : k \in {j \in DOMAIN os : os[j].user_id = user_id}}
        OfUser(trade) == trade.order_id \in user_order_ids
    IN [op |-> "get_user_trades", success |-> TRUE, user_id |-> user_id,
        trades |-> SelectSeq(ts, OfUser)]

get_order_book(obs, symbol) ==
    IF symbol \notin DOMAIN obs
    THEN [op |-> "get_order_book", success |-> FALSE, symbol |-> symbol,
          error |-> "Symbol not found", order_book |-> None]
    ELSE [op |-> "get_order_book", success |-> TRUE, symbol |-> symbol,
          error |-> "", order_book |-> Some(obs[symbol])]

(***************************************************************************)
(* AlgorithmicTrading.create_oco_order.                                     *)
(***************************************************************************)
OrderData(user, symbol, side, type, qty, price, stop, tif) ==
    [user_id |-> user, symbol |-> symbol, side |-> side, order_type |-> type,
     quantity |-> qty, price |-> price, stop_price |-> stop,
     trail_amount |-> None, trail_percent |-> None, time_in_force |-> tif]

OcoStopSide(side) == IF side = "buy" THEN "sell" ELSE "buy"

create_oco_order(md, os, ts, user, symbol, side, quantity, limit_price, stop_price) ==
    LET limit_order_data == OrderData(user, symbol, side, "limit", quantity,
                                      limit_price, None, "gtc")
        stop_order_data == OrderData(user, symbol, OcoStopSide(side), "stop_loss",
                                     quantity, None, stop_price, "gtc")
        limit_result == place_order(md, os, ts, limit_order_data)
        stop_result == place_order(md, limit_result.orders, limit_result.trades,
                                   stop_order_data)
        ok == limit_result.result.success /\ stop_result.result.success
    IN [orders |-> stop_result.orders,
        trades |-> stop_result.trades,
        pair |-> [limit_order_id |-> limit_result.result.order_id,
                  stop_order_id |-> stop_result.result.order_id,
                  success |-> ok],
        result |-> Result("create_oco_order", ok, 0, user, "",
                          IF ok THEN "" ELSE "Failed to create OCO order pair")]

(***************************************************************************)
(* Inputs.                                                                  *)
(***************************************************************************)
Users == {"u1", "u2"}

MarketInputs ==
    {OrderData("u1", "BTC/DGD", sd, "market", q, None, None, "gtc") :
        sd \in OrderSide, q \in {1, 2}}
    \cup {OrderData("u1", "ETH/DGD", "buy", "market", 1, None, None, "ioc"),
          OrderData("u2", "BTC/DGD", "sell", "market", 1, None, None, "gtc")}

LimitPrices == {998, 999, 1001, 1002}

LimitInputs ==
    {OrderData("u1", "BTC/DGD", sd, "limit", 2, Some(p), None, "gtc") :
        sd \in OrderSide, p \in LimitPrices}
    \cup {OrderData("u2", "BTC/DGD", "buy", "limit", 1, Some(999), None, "gtc")}

StopInputs ==
    {OrderData("u1", "BTC/DGD", "sell", "stop_loss", 1, None, Some(900), "gtc")}

InvalidInputs ==
    {OrderData("u1", "XRP/DGD", "buy", "market", 1, None, None, "gtc"),
     OrderData("u1", "BTC/DGD", "buy", "market", 0, None, None, "gtc"),
     OrderData("u1", "BTC/DGD", "sell", "market", -1, None, None, "gtc"),
     OrderData("u1", "BTC/DGD", "buy", "limit", 1, None, None, "gtc"),
     OrderData("u1", "BTC/DGD", "buy", "limit", 1, Some(0), None, "gtc"),
     OrderData("u1", "BTC/DGD", "sell", "stop_loss", 1, None, None, "gtc"),
     OrderData("u1", "BTC/DGD", "sell", "trailing_stop", 1, None, None, "gtc"),
     OrderData("u1", "BTC/DGD", "hold", "market", 1, None, None, "gtc")}

OrderInputs == MarketInputs \cup LimitInputs \cup StopInputs \cup InvalidInputs

OcoLimitPrices == {Some(999), Some(1001)}
OcoStopPrices == {Some(900), None}

ThreadIds == 1 .. NumThreads
IdleThread == [pc |-> "idle", op |-> "", order_id |-> 0, user_id |-> "",
               success |-> FALSE, error |-> "", at_call |-> ""]
NoCall == Result("", FALSE, 0, "", "", "")

\* No strategy has been started.
NoStrategy ==
    [pc |-> "idle", strategy |-> "", user_id |-> "", symbol |-> "", side |-> "",
     total_quantity |-> 0, duration_minutes |-> 0, num_chunks |-> 0,
     chunk_size |-> 0, i |-> 0, remaining_quantity |-> 0,
     orders_placed |-> <<>>, first_id |-> 0, raised |-> FALSE,
     cancel_requested |-> FALSE, runs |-> 0, elapsed |-> 0,
     executed_quantity |-> 0, inexact |-> 0]

(***************************************************************************)
(* The state after construction (TradingAPI.__init__).                      *)
(***************************************************************************)
Init ==
    /\ orders = <<>>
    /\ trades = <<>>
    /\ market_data = initialize_market_data
    /\ order_books = initialize_order_books
    /\ last = NoCall
    /\ oco_pairs = <<>>
    /\ thr = [c \in ThreadIds |-> IdleThread]
    /\ clock = "before_cutoff"
    /\ algo = NoStrategy

(***************************************************************************)
(* The operations, each run to completion (one caller at a time).           *)
(***************************************************************************)
PlaceOrder(d) ==
    /\ Len(orders) < MaxOrders
    /\ LET r == place_order(market_data, orders, trades, d)
       IN /\ orders' = r.orders
          /\ trades' = r.trades
          /\ last' = r.result
    /\ UNCHANGED <<clock, algo, market_data, order_books, oco_pairs, thr>>

CancelOrder(order_id, user_id) ==
    /\ LET r == cancel_order(orders, order_id, user_id)
       IN /\ orders' = r.orders
          /\ last' = r.result
    /\ UNCHANGED <<clock, algo, trades, market_data, order_books, oco_pairs, thr>>

CreateOcoOrder(user, symbol, side, quantity, limit_price, stop_price) ==
    /\ Len(orders) + 2 <= MaxOrders
    /\ LET r == create_oco_order(market_data, orders, trades, user, symbol, side,
                                 quantity, limit_price, stop_price)
       IN /\ orders' = r.orders
          /\ trades' = r.trades
          /\ oco_pairs' = Append(oco_pairs, r.pair)
          /\ last' = r.result
    /\ UNCHANGED <<clock, algo, market_data, order_books, thr>>

Next ==
    \/ \E d \in OrderInputs : PlaceOrder(d)
    \/ \E id \in 1 .. MaxOrders + 1, u \in Users : CancelOrder(id, u)
    \/ \E sd \in OrderSide, lp \in OcoLimitPrices, sp \in OcoStopPrices :
          CreateOcoOrder("u1", "BTC/DGD", sd, 1, lp, sp)

Spec == Init /\ [][Next]_vars

(***************************************************************************)
(* Concurrent callers.  The HTTP server runs each request in its own        *)
(* thread and the order manager takes no lock, so the steps of two calls    *)
(* interleave.  place_order is cut between storing the order (line 180)     *)
(* and its execution attempt (lines 183-186); cancel_order is cut between   *)
(* its checks (lines 287-296) and its write (lines 298-299).                *)
(***************************************************************************)
ConcInputs ==
    {OrderData("u1", "BTC/DGD", "buy", "market", 1, None, None, "gtc"),
     OrderData("u1", "BTC/DGD", "buy", "limit", 2, Some(999), None, "gtc"),
     OrderData("u1", "BTC/DGD", "sell", "limit", 2, Some(999), None, "gtc"),
     OrderData("u1", "BTC/DGD", "buy", "market", 0, None, None, "gtc")}

Free(c) == thr[c].pc \in {"idle", "done"}

\* place_order up to and including line 180 (or its early return).
TPlaceStore(c, d) ==
    /\ Free(c)
    /\ Len(orders) < MaxConcOrders
    /\ LET r == place_order(market_data, orders, trades, d)
           id == Len(orders) + 1
       IN IF r.result.success
          THEN /\ orders' = Append(orders, NewOrder(id, d))
               /\ thr' = [thr EXCEPT ![c] =
                            [pc |-> "place_exec", op |-> "place_order",
                             order_id |-> id, user_id |-> d.user_id,
                             success |-> FALSE, error |-> "", at_call |-> ""]]
          ELSE /\ orders' = r.orders
               /\ thr' = [thr EXCEPT ![c] =
                            [pc |-> "done", op |-> "place_order",
                             order_id |-> r.result.order_id,
                             user_id |-> d.user_id, success |-> FALSE,
                             error |-> r.result.error, at_call |-> ""]]
    /\ UNCHANGED <<clock, algo, trades, market_data, order_books, last, oco_pairs>>

\* place_order lines 183-193, on the order object the thread holds.
TPlaceExec(c) ==
    /\ thr[c].pc = "place_exec"
    /\ LET ex == TryExecute(market_data, orders, trades, thr[c].order_id)
       IN /\ orders' = ex.orders
          /\ trades' = ex.trades
    /\ thr' = [thr EXCEPT ![c].pc = "done", ![c].success = TRUE]
    /\ UNCHANGED <<clock, algo, market_data, order_books, last, oco_pairs>>

\* cancel_order is called; at_call remembers the status the order had then.
TCancelCall(c, order_id, user_id) ==
    /\ Free(c)
    /\ thr' = [thr EXCEPT ![c] =
                 [pc |-> "cancel_check", op |-> "cancel_order",
                  order_id |-> order_id, user_id |-> user_id,
                  success |-> FALSE, error |-> "",
                  at_call |-> IF order_id \in DOMAIN orders
                              THEN orders[order_id].status ELSE ""]]
    /\ UNCHANGED <<clock, algo, orders, trades, market_data, order_books, last, oco_pairs>>

\* cancel_order lines 287-296
TCancelCheck(c) ==
    /\ thr[c].pc = "cancel_check"
    /\ LET err == cancel_check(orders, thr[c].order_id, thr[c].user_id)
       IN thr' = [thr EXCEPT ![c].pc = IF err = "" THEN "cancel_write" ELSE "done",
                             ![c].error = err]
    /\ UNCHANGED <<clock, algo, orders, trades, market_data, order_books, last, oco_pairs>>

\* cancel_order lines 298-301
TCancelWrite(c) ==
    /\ thr[c].pc = "cancel_write"
    /\ orders' = cancel_write(orders, thr[c].order_id)
    /\ thr' = [thr EXCEPT ![c].pc = "done", ![c].success = TRUE]
    /\ UNCHANGED <<clock, algo, trades, market_data, order_books, last, oco_pairs>>

NextConc ==
    \/ \E c \in ThreadIds, d \in ConcInputs : TPlaceStore(c, d)
    \/ \E c \in ThreadIds : TPlaceExec(c)
    \/ \E c \in ThreadIds, id \in 1 .. MaxConcOrders : TCancelCall(c, id, "u1")
    \/ \E c \in ThreadIds : TCancelCheck(c)
    \/ \E c \in ThreadIds : TCancelWrite(c)

SpecConc == Init /\ [][NextConc]_vars

\* Concurrent place_order calls only: a rejected specification next to
\* specifications that are stored and executed.
ConcPlaceInputs ==
    {OrderData("u1", "BTC/DGD", "buy", "market", 1, None, None, "gtc"),
     OrderData("u1", "BTC/DGD", "buy", "market", 0, None, None, "gtc"),
     OrderData("u2", "XRP/DGD", "sell", "limit", 1, Some(999), None, "gtc"),
     OrderData("u1", "BTC/DGD", "buy", "limit", 2, Some(999), None, "gtc"),
     OrderData("u2", "BTC/DGD", "sell", "limit", 2, Some(999), None, "gtc")}

NextConcPlace ==
    \/ \E c \in ThreadIds, d \in ConcPlaceInputs : TPlaceStore(c, d)
    \/ \E c \in ThreadIds : TPlaceExec(c)

SpecConcPlace == Init /\ [][NextConcPlace]_vars

(***************************************************************************)
(* The engine in its environment: callers place and cancel orders with      *)
(* every time_in_force, the market data source replaces the snapshot of a   *)
(* symbol, and the wall clock passes the end-of-day cutoff.  The engine     *)
(* has no handler for a new snapshot or for the cutoff: both steps change   *)
(* only what the environment owns.                                          *)
(***************************************************************************)
EnvInputs ==
    {OrderData("u1", "BTC/DGD", "buy", "limit", 1, Some(999), None, "gtc"),
     OrderData("u1", "BTC/DGD", "buy", "limit", 2, Some(999), None, "ioc"),
     OrderData("u1", "BTC/DGD", "buy", "limit", 2, Some(999), None, "fok"),
     OrderData("u1", "BTC/DGD", "buy", "limit", 2, Some(1001), None, "fok"),
     OrderData("u1", "BTC/DGD", "buy", "limit", 1, Some(999), None, "day"),
     OrderData("u2", "BTC/DGD", "sell", "limit", 1, Some(1001), None, "day"),
     OrderData("u2", "BTC/DGD", "sell", "market", 2, None, None, "fok"),
     OrderData("u2", "BTC/DGD", "sell", "stop_loss", 1, None, Some(998), "ioc"),
     [OrderData("u2", "BTC/DGD", "sell", "trailing_stop", 1, None, None, "gtc")
        EXCEPT !.trail_amount = Some(2)]}

\* Snapshots of BTC/DGD: the initial one, one with the ask at 999 and one
\* with the bid at 1001.
Snapshots ==
    {[bid |-> 999, ask |-> 1001, last |-> 1000],
     [bid |-> 997, ask |-> 999, last |-> 998],
     [bid |-> 1001, ask |-> 1003, last |-> 1002]}

\* A DAY order gets the cutoff of the day it is placed on; only that day's
\* cutoff is modelled.
EnvPlaceOrder(d) ==
    /\ d.time_in_force = "day" => clock = "before_cutoff"
    /\ PlaceOrder(d)

\* The market data source supplies a new snapshot of a symbol.
UpdateSnapshot(symbol, snapshot) ==
    /\ market_data[symbol] # snapshot
    /\ market_data' = [market_data EXCEPT ![symbol] = snapshot]
    /\ UNCHANGED <<orders, trades, order_books, last, oco_pairs, thr, clock, algo>>

\* The wall clock passes 23:59:59, the expires_at of the DAY orders.
Tick ==
    /\ clock = "before_cutoff"
    /\ clock' = "after_cutoff"
    /\ UNCHANGED <<orders, trades, market_data, order_books, last, oco_pairs, thr, algo>>

NextEnv ==
    \/ \E d \in EnvInputs : EnvPlaceOrder(d)
    \/ \E id \in 1 .. MaxOrders, u \in Users : CancelOrder(id, u)
    \/ \E q \in Snapshots : UpdateSnapshot("BTC/DGD", q)
    \/ Tick

\* The market data source never stops supplying snapshots.
SpecEnv == Init /\ [][NextEnv]_vars /\ WF_vars(NextEnv)

(***************************************************************************)
(* AlgorithmicTrading.execute_twap_strategy and execute_vwap_strategy, one  *)
(* loop iteration per step.  Quantities are whole lots and the inputs are   *)
(* chosen so that every quotient the strategies compute is exact; the       *)
(* volume weights are in hundredths.                                        *)
(***************************************************************************)
CAP == 20

WeightScale == 100

volume_profile == <<15, 12, 8, 6, 8, 10, 12, 15, 14>>

\* a / b for b # 0.
Quot(a, b) == IF b > 0 THEN a \div b ELSE -(a \div (-b))

\* The chunk count without the cap.
NumChunks_uncapped(duration_minutes) == duration_minutes

\* line 359
NumChunks(duration_minutes) ==
    IF duration_minutes < CAP THEN duration_minutes ELSE CAP

\* The weighted quantity with the weight taken as a whole number.
SlotQuantity_unscaled(total_quantity, volume_weight, remaining_quantity) ==
    total_quantity * volume_weight

\* line 408
SlotQuantity(total_quantity, volume_weight, remaining_quantity) ==
    LET weighted == Quot(total_quantity * volume_weight, WeightScale)
    IN IF weighted < remaining_quantity THEN weighted ELSE remaining_quantity

\* lines 369-376 and 411-418
ChildOrderData(quantity) ==
    OrderData(algo.user_id, algo.symbol, algo.side, "market", quantity,
              None, None, "ioc")

AlgoUsers == {"u1"}
AlgoSymbols == {"BTC/DGD", "XRP/DGD"}
TwapQuantities == {300, 0}
VwapQuantities == {300, 0, -300}
Durations == {-1, 0, 1, 2, 3, 20, 21}

\* lines 359-363; division by a zero chunk count raises ZeroDivisionError.
TwapCall(user, symbol, side, total_quantity, duration_minutes) ==
    /\ algo.pc \in {"idle", "done"}
    /\ algo.runs < MaxRuns
    /\ Len(orders) + NumChunks(duration_minutes) <= MaxAlgoOrders
    /\ LET call == [NoStrategy EXCEPT !.strategy = "TWAP",
                                      !.user_id = user,
                                      !.symbol = symbol,
                                      !.side = side,
                                      !.total_quantity = total_quantity,
                                      !.duration_minutes = duration_minutes,
                                      !.num_chunks = NumChunks(duration_minutes),
                                      !.first_id = Len(orders),
                                      !.runs = algo.runs + 1]
       IN IF NumChunks(duration_minutes) = 0
          THEN /\ algo' = [call EXCEPT !.pc = "done", !.raised = TRUE]
               /\ last' = Result("execute_twap_strategy", FALSE, 0, user, "",
                                 "ZeroDivisionError")
          ELSE /\ algo' = [call EXCEPT
                             !.pc = "twap",
                             !.chunk_size = Quot(total_quantity,
                                                 NumChunks(duration_minutes))]
               /\ UNCHANGED last
    /\ UNCHANGED <<orders, trades, market_data, order_books, oco_pairs, thr, clock>>

\* lines 365-381: one iteration of the loop.
TwapSlice ==
    /\ algo.pc = "twap"
    /\ algo.i < algo.num_chunks
    /\ LET r == place_order(market_data, orders, trades,
                            ChildOrderData(algo.chunk_size))
       IN /\ orders' = r.orders
          /\ trades' = r.trades
          /\ algo' = [algo EXCEPT
                        !.i = @ + 1,
                        !.orders_placed = IF r.result.success
                                          THEN Append(@, r.result.order_id)
                                          ELSE @]
    /\ UNCHANGED <<market_data, order_books, last, oco_pairs, thr, clock>>

\* lines 383-391
TwapReturn ==
    /\ algo.pc = "twap"
    /\ algo.i >= algo.num_chunks
    /\ algo' = [algo EXCEPT !.pc = "done"]
    /\ last' = Result("execute_twap_strategy", TRUE, 0, algo.user_id, "", "")
    /\ UNCHANGED <<orders, trades, market_data, order_books, oco_pairs, thr, clock>>

\* lines 397-401
VwapCall(user, symbol, side, total_quantity) ==
    /\ algo.pc \in {"idle", "done"}
    /\ algo.runs < MaxRuns
    /\ Len(orders) + Len(volume_profile) <= MaxAlgoOrders
    /\ algo' = [NoStrategy EXCEPT !.pc = "vwap",
                                  !.strategy = "VWAP",
                                  !.user_id = user,
                                  !.symbol = symbol,
                                  !.side = side,
                                  !.total_quantity = total_quantity,
                                  !.remaining_quantity = total_quantity,
                                  !.i = 1,
                                  !.first_id = Len(orders),
                                  !.runs = algo.runs + 1]
    /\ UNCHANGED <<orders, trades, market_data, order_books, last, oco_pairs, thr, clock>>

\* lines 403-423: one iteration of the loop that does not break.
VwapSlice ==
    /\ algo.pc = "vwap"
    /\ algo.i <= Len(volume_profile)
    /\ algo.remaining_quantity > 0
    /\ LET slot_quantity == SlotQuantity(algo.total_quantity,
                                         volume_profile[algo.i],
                                         algo.remaining_quantity)
           r == place_order(market_data, orders, trades,
                            ChildOrderData(slot_quantity))
       IN IF slot_quantity > 0
          THEN /\ orders' = r.orders
               /\ trades' = r.trades
               /\ algo' = [algo EXCEPT
                             !.i = @ + 1,
                             !.orders_placed = IF r.result.success
                                               THEN Append(@, r.result.order_id)
                                               ELSE @,
                             !.remaining_quantity = IF r.result.success
                                                    THEN @ - slot_quantity
                                                    ELSE @]
          ELSE /\ algo' = [algo EXCEPT !.i = @ + 1]
               /\ UNCHANGED <<orders, trades>>
    /\ UNCHANGED <<market_data, order_books, last, oco_pairs, thr, clock>>

\* lines 404-405 and 425-431: the break or the end of the profile, and the
\* return.
VwapReturn ==
    /\ algo.pc = "vwap"
    /\ algo.i > Len(volume_profile) \/ algo.remaining_quantity <= 0
    /\ algo' = [algo EXCEPT !.pc = "done",
                            !.executed_quantity = algo.total_quantity
                                                  - algo.remaining_quantity]
    /\ last' = Result("execute_vwap_strategy", TRUE, 0, algo.user_id, "", "")
    /\ UNCHANGED <<orders, trades, market_data, order_books, oco_pairs, thr, clock>>

\* A caller asks for the running strategy to be cancelled.  The strategies
\* have no cancel operation and their loops read no such request.
RequestStrategyCancel ==
    /\ algo.pc \in {"twap", "vwap"}
    /\ ~algo.cancel_requested
    /\ algo' = [algo EXCEPT !.cancel_requested = TRUE]
    /\ UNCHANGED <<orders, trades, market_data, order_books, last, oco_pairs, thr, clock>>

\* Wall-clock time passes while a strategy call is running: elapsed counts
\* the whole minutes since the call started.  The loops compute
\* delay_minutes (line 367) but never wait for it, so a minute may or may
\* not pass between two iterations.
MinuteElapses ==
    /\ algo.pc \in {"twap", "vwap"}
    /\ algo.elapsed < MaxMinutes
    /\ algo' = [algo EXCEPT !.elapsed = @ + 1]
    /\ UNCHANGED <<orders, trades, market_data, order_books, last, oco_pairs, thr, clock>>

NextAlgo ==
    \/ \E u \in AlgoUsers, s \in AlgoSymbols, q \in TwapQuantities, d \in Durations :
          TwapCall(u, s, "buy", q, d)
    \/ TwapSlice
    \/ TwapReturn
    \/ \E u \in AlgoUsers, s \in AlgoSymbols, q \in VwapQuantities :
          VwapCall(u, s, "buy", q)
    \/ VwapSlice
    \/ VwapReturn
    \/ RequestStrategyCancel
    \/ MinuteElapses

SpecAlgo == Init /\ [][NextAlgo]_vars

(***************************************************************************)
(* execute_vwap_strategy in binary floating point.  Quantities are Python   *)
(* floats: every product and difference is rounded to the nearest           *)
(* representable number.  Here a quantity is counted in rounding steps (the *)
(* spacing of representable numbers at the size of total_quantity), a       *)
(* rounded operation returns the exact result or a neighbour of it, and     *)
(* which of them depends on the operands' bits, so it is left open.         *)
(***************************************************************************)
\* At most MaxInexact operations of one call return a neighbour of the exact
\* result.
MaxInexact == 2

RoundingErrors == {-1, 0, 1}

Abs(x) == IF x < 0 THEN -x ELSE x

\* total_quantity * volume_weight (line 408): a product with 0 is exact.
float_mul(total_quantity, volume_weight, e) ==
    IF total_quantity = 0
    THEN 0
    ELSE Quot(total_quantity * volume_weight, WeightScale) + e

\* x - y (lines 423 and 429): exact when the operands are equal or y is 0;
\* the rounded difference of different numbers is not 0 and keeps its sign.
float_sub(x, y, e) ==
    IF x = y THEN 0
    ELSE IF y = 0 THEN x
    ELSE IF x > y THEN (IF x - y + e < 1 THEN 1 ELSE x - y + e)
    ELSE (IF x - y + e > -1 THEN -1 ELSE x - y + e)

\* The slot quantity without the cap by the remaining quantity.
SlotQuantityFloat_uncapped(total_quantity, volume_weight, remaining_quantity, e) ==
    float_mul(total_quantity, volume_weight, e)

\* line 408
SlotQuantityFloat(total_quantity, volume_weight, remaining_quantity, e) ==
    LET weighted == float_mul(total_quantity, volume_weight, e)
    IN IF weighted < remaining_quantity THEN weighted ELSE remaining_quantity

\* lines 403-423: one iteration of the loop that does not break; e1 is the
\* rounding of the product, e2 the rounding of the subtraction.
VwapSliceFloat(e1, e2) ==
    /\ algo.pc = "vwap"
    /\ algo.i <= Len(volume_profile)
    /\ algo.remaining_quantity > 0
    /\ algo.inexact + Abs(e1) + Abs(e2) <= MaxInexact
    /\ e1 # 0 => algo.total_quantity # 0
    /\ LET slot_quantity == SlotQuantityFloat(algo.total_quantity,
                                              volume_profile[algo.i],
                                              algo.remaining_quantity, e1)
           r == place_order(market_data, orders, trades,
                            ChildOrderData(slot_quantity))
       IN IF slot_quantity > 0
          THEN /\ e2 # 0 => (r.result.success
                             /\ slot_quantity # algo.remaining_quantity)
               /\ orders' = r.orders
               /\ trades' = r.trades
               /\ algo' = [algo EXCEPT
                             !.i = @ + 1,
                             !.inexact = @ + Abs(e1) + Abs(e2),
                             !.orders_placed = IF r.result.success
                                               THEN Append(@, r.result.order_id)
                                               ELSE @,
                             !.remaining_quantity =
                                 IF r.result.success
                                 THEN float_sub(@, slot_quantity, e2)
                                 ELSE @]
          ELSE /\ e2 = 0
               /\ algo' = [algo EXCEPT !.i = @ + 1, !.inexact = @ + Abs(e1)]
               /\ UNCHANGED <<orders, trades>>
    /\ UNCHANGED <<market_data, order_books, last, oco_pairs, thr, clock>>

\* lines 404-405 and 425-431: the break or the end of the profile, and the
\* return; e3 is the rounding of total_quantity - remaining_quantity.
VwapReturnFloat(e3) ==
    /\ algo.pc = "vwap"
    /\ algo.i > Len(volume_profile) \/ algo.remaining_quantity <= 0
    /\ algo.inexact + Abs(e3) <= MaxInexact
    /\ e3 # 0 => (algo.remaining_quantity # 0
                  /\ algo.remaining_quantity # algo.total_quantity)
    /\ algo' = [algo EXCEPT
                  !.pc = "done",
                  !.inexact = @ + Abs(e3),
                  !.executed_quantity = float_sub(algo.total_quantity,
                                                  algo.remaining_quantity, e3)]
    /\ last' = Result("execute_vwap_strategy", TRUE, 0, algo.user_id, "", "")
    /\ UNCHANGED <<orders, trades, market_data, order_books, oco_pairs, thr, clock>>

\* lines 397-401.  The arithmetic of a call does not depend on the calls
\* before it, so the first call is the one followed.
VwapCallFloat(user, symbol, side, total_quantity) ==
    /\ algo.pc = "idle"
    /\ VwapCall(user, symbol, side, total_quantity)

NextVwapFloat ==
    \/ \E u \in AlgoUsers, s \in AlgoSymbols, q \in VwapQuantities :
          VwapCallFloat(u, s, "buy", q)
    \/ \E e1, e2 \in RoundingErrors : VwapSliceFloat(e1, e2)
    \/ \E e3 \in RoundingErrors : VwapReturnFloat(e3)

SpecVwapFloat == Init /\ [][NextVwapFloat]_vars

(***************************************************************************)
(* The API with its queries: two users place and cancel orders and every    *)
(* caller may query.  last holds the dictionary returned by the latest      *)
(* call.                                                                    *)
(***************************************************************************)
ApiValidInputs ==
    {OrderData("u1", "BTC/DGD", "buy", "market", 1, None, None, "gtc"),
     OrderData("u2", "BTC/DGD", "sell", "market", 2, None, None, "gtc"),
     OrderData("u2", "ETH/DGD", "sell", "limit", 1, Some(1001), None, "gtc")}

ApiInvalidInputs ==
    {OrderData("u1", "XRP/DGD", "buy", "market", 1, None, None, "gtc"),
     OrderData("u2", "BTC/DGD", "sell", "limit", 1, Some(0), None, "gtc")}

ApiInputs == ApiValidInputs \cup ApiInvalidInputs

StatusFilters == {None, Some(""), Some("pending"), Some("filled"), Some("rejected")}

QuerySymbols == {"LINK/DGD", "XRP/DGD"}

GetOrderStatus(order_id) ==
    /\ last' = get_order_status(orders, order_id)
    /\ UNCHANGED <<orders, trades, market_data, order_books, oco_pairs, thr, clock, algo>>

GetUserOrders(user_id, status_filter) ==
    /\ last' = get_user_orders(orders, user_id, status_filter)
    /\ UNCHANGED <<orders, trades, market_data, order_books, oco_pairs, thr, clock, algo>>

GetUserTrades(user_id) ==
    /\ last' = get_user_trades(orders, trades, user_id)
    /\ UNCHANGED <<orders, trades, market_data, order_books, oco_pairs, thr, clock, algo>>

GetOrderBook(symbol) ==
    /\ last' = get_order_book(order_books, symbol)
    /\ UNCHANGED <<orders, trades, market_data, order_books, oco_pairs, thr, clock, algo>>

NextApi ==
    \/ \E d \in ApiInputs : PlaceOrder(d)
    \/ \E id \in 1 .. MaxOrders, u \in Users : CancelOrder(id, u)
    \/ \E id \in 1 .. MaxOrders + 1 : GetOrderStatus(id)
    \/ \E u \in Users, f \in StatusFilters : GetUserOrders(u, f)
    \/ \E u \in Users : GetUserTrades(u)
    \/ \E s \in QuerySymbols : GetOrderBook(s)

SpecApi == Init /\ [][NextApi]_vars

(***************************************************************************)
(* Validation alone: placements of specifications that break no, one or     *)
(* several of the rules of _validate_order.                                 *)
(***************************************************************************)
\* Specifications from which no Order can be constructed: a value outside
\* an enumeration, or a missing key.
MalformedInputs ==
    {OrderData("u1", "BTC/DGD", "hold", "market", 1, None, None, "gtc"),
     OrderData("u1", "BTC/DGD", "buy", "block", 1, None, None, "gtc"),
     OrderData("u1", "BTC/DGD", "buy", "limit", 1, Some(999), None, "gtd"),
     [symbol |-> "BTC/DGD", side |-> "buy", order_type |-> "market",
      quantity |-> 1, price |-> None, stop_price |-> None,
      trail_amount |-> None, trail_percent |-> None, time_in_force |-> "gtc"],
     [user_id |-> "u1", symbol |-> "BTC/DGD", side |-> "buy",
      order_type |-> "market", price |-> None, stop_price |-> None,
      trail_amount |-> None, trail_percent |-> None, time_in_force |-> "gtc"]}

ValidateInputs ==
    {OrderData("u1", "BTC/DGD", "buy", "market", 1, None, None, "gtc"),
     OrderData("u1", "BTC/DGD", "buy", "limit", 1, Some(999), None, "gtc"),
     OrderData("u2", "BTC/DGD", "sell", "stop_loss", 1, None, Some(998), "gtc"),
     OrderData("u1", "XRP/DGD", "buy", "market", 1, None, None, "gtc"),
     OrderData("u1", "XRP/DGD", "buy", "market", 0, None, None, "gtc"),
     OrderData("u1", "XRP/DGD", "buy", "limit", 1, None, None, "gtc"),
     OrderData("u2", "XRP/DGD", "sell", "stop_loss", -1, None, None, "gtc"),
     OrderData("u1", "BTC/DGD", "buy", "limit", 0, None, None, "gtc"),
     OrderData("u2", "BTC/DGD", "sell", "stop_loss", -1, None, Some(0), "gtc"),
     OrderData("u1", "BTC/DGD", "sell", "trailing_stop", 0, None, None, "gtc"),
     OrderData("u1", "BTC/DGD", "buy", "limit", 1, Some(0), None, "gtc"),
     OrderData("u1", "BTC/DGD", "buy", "limit", 1, Some(-5), None, "gtc"),
     OrderData("u2", "BTC/DGD", "sell", "take_profit", 1, None, None, "gtc"),
     OrderData("u2", "BTC/DGD", "sell", "trailing_stop", 1, None, None, "gtc")}
    \cup MalformedInputs

NextValidate == \E d \in ValidateInputs : PlaceOrder(d)

SpecValidate == Init /\ [][NextValidate]_vars

(***************************************************************************)
(* Properties.                                                              *)
(***************************************************************************)
Terminal == {"filled", "cancelled", "rejected", "expired"}

TradesFor(ts, id) == {k \in DOMAIN ts : ts[k].order_id = id}

RECURSIVE SumQuantity(_, _)
SumQuantity(ts, id) ==
    IF ts = <<>> THEN 0
    ELSE (IF Head(ts).order_id = id THEN Head(ts).quantity ELSE 0)
         + SumQuantity(Tail(ts), id)

\* The orders a step adds to the store.
NewIds == (Len(orders) + 1) .. Len(orders')

\* A specification that passes the validation of section 4.1.
KnownSymbol(o) == o.symbol \in DOMAIN market_data
Crosses(o) ==
    IF o.side = "buy" THEN market_data[o.symbol].ask <= Val(o.price)
    ELSE market_data[o.symbol].bid >= Val(o.price)

C2_TradesSumToFilled ==
    \A i \in DOMAIN orders :
        SumQuantity(trades, i) = orders[i].filled_quantity

C2_Witness ==
    \E i, j \in DOMAIN orders :
        /\ i # j
        /\ orders[i].order_type = "market"
        /\ orders[j].order_type = "limit"
        /\ orders[i].filled_quantity > 0
        /\ orders[j].filled_quantity > 0
        /\ Len(trades) = 2

\* C3: terminal states are absorbing and retained: a step never changes the
\* status of an order that is FILLED, CANCELLED, REJECTED or EXPIRED, and
\* never removes an order from the store.
C3_TerminalAbsorbing ==
    [][\A i \in DOMAIN orders :
          /\ i \in DOMAIN orders'
          /\ orders[i].status \in Terminal =>
                orders'[i].status = orders[i].status]_vars

\* C4: cancel_order by the owner on an order in a terminal state returns a
\* failure and leaves the order store and the trade log unchanged.
C4_CancelTerminalFails ==
    [][\A i \in DOMAIN orders :
          (/\ last'.op = "cancel_order"
           /\ last'.order_id = i
           /\ last'.user_id = orders[i].user_id
           /\ orders[i].status \in Terminal)
          => (/\ ~last'.success
              /\ orders' = orders
              /\ trades' = trades)]_vars

\* C5: of two cancel_order calls by the owner that were both made while the
\* order was PENDING, exactly one returns success and the order ends
\* CANCELLED.
C5_ConcurrentCancelOneWinner ==
    \A c1, c2 \in ThreadIds :
        (/\ c1 # c2
         /\ thr[c1].op = "cancel_order" /\ thr[c2].op = "cancel_order"
         /\ thr[c1].pc = "done" /\ thr[c2].pc = "done"
         /\ thr[c1].order_id = thr[c2].order_id
         /\ thr[c1].order_id \in DOMAIN orders
         /\ thr[c1].user_id = orders[thr[c1].order_id].user_id
         /\ thr[c2].user_id = orders[thr[c2].order_id].user_id
         /\ thr[c1].at_call = "pending" /\ thr[c2].at_call = "pending")
        => (/\ thr[c1].success # thr[c2].success
            /\ orders[thr[c1].order_id].status = "cancelled")

\* C6: cancel against fill, the first to commit wins: an order on which a
\* cancel_order call has returned success is CANCELLED, has no trade and
\* filled_quantity 0 (it is never both cancelled and filled).
C6_CancelFillExclusive ==
    \A c \in ThreadIds :
        (/\ thr[c].op = "cancel_order"
         /\ thr[c].pc = "done"
         /\ thr[c].success)
        => (/\ orders[thr[c].order_id].status = "cancelled"
            /\ orders[thr[c].order_id].filled_quantity = 0
            /\ TradesFor(trades, thr[c].order_id) = {})

\* The two siblings of the k-th create_oco_order call, where both were stored.
Stored(k) ==
    /\ oco_pairs[k].limit_order_id \in DOMAIN orders
    /\ oco_pairs[k].stop_order_id \in DOMAIN orders
LimitSibling(k) == orders[oco_pairs[k].limit_order_id]
StopSibling(k) == orders[oco_pairs[k].stop_order_id]

\* C7: for every pair of orders created by one create_oco_order call, the two
\* siblings are never both FILLED.
C7_OcoNeverBothFilled ==
    \A k \in DOMAIN oco_pairs :
        Stored(k) =>
            ~(LimitSibling(k).status = "filled" /\ StopSibling(k).status = "filled")

C7_Witness ==
    \E k \in DOMAIN oco_pairs :
        /\ oco_pairs[k].success
        /\ LimitSibling(k).status = "filled"
        /\ TradesFor(trades, oco_pairs[k].limit_order_id) # {}
        /\ StopSibling(k).order_type = "stop_loss"
        /\ StopSibling(k).status # "rejected"

\* C8: for every OCO pair, no state has one sibling FILLED while the other is
\* still PENDING or PARTIALLY_FILLED.
C8_OcoSiblingCancelledOnFill ==
    \A k \in DOMAIN oco_pairs :
        Stored(k) =>
            /\ LimitSibling(k).status = "filled" =>
                  StopSibling(k).status \notin {"pending", "partially_filled"}
            /\ StopSibling(k).status = "filled" =>
                  LimitSibling(k).status \notin {"pending", "partially_filled"}

\* C9: a step that stores a valid market order (known symbol, quantity > 0)
\* leaves it FILLED with filled_quantity = quantity and appends exactly one
\* trade, for that order, of the order's quantity, at the snapshot ask for a
\* buy and the snapshot bid for a sell, with fee quantity x price x taker
\* rate; place_order returns success with status filled.
C9_MarketOrderFilledAtOnce ==
    [][\A n \in NewIds :
          LET o == orders'[n]
              px == IF o.side = "buy" THEN market_data[o.symbol].ask
                    ELSE market_data[o.symbol].bid
          IN (o.order_type = "market" /\ KnownSymbol(o) /\ o.quantity > 0)
             => (/\ o.status = "filled"
                 /\ o.filled_quantity = o.quantity
                 /\ Cardinality(TradesFor(trades', n)) = 1
                 /\ TradesFor(trades, n) = {}
                 /\ \A k \in TradesFor(trades', n) :
                       /\ trades'[k].quantity = o.quantity
                       /\ trades'[k].price = px
                       /\ trades'[k].fee = o.quantity * px * taker_fee
                       /\ trades'[k].symbol = o.symbol
                       /\ trades'[k].side = o.side
                 /\ last'.op = "place_order" =>
                       (last'.success /\ last'.order_id = n
                        /\ last'.status = "filled"))]_vars

C9_Witness ==
    /\ last.op = "place_order"
    /\ last.success
    /\ last.status = "filled"
    /\ orders[last.order_id].order_type = "market"
    /\ orders[last.order_id].side = "sell"
    /\ \E k \in DOMAIN trades :
          /\ trades[k].order_id = last.order_id
          /\ trades[k].price = market_data[orders[last.order_id].symbol].bid

\* C10: a step that stores a valid limit order executes it exactly when the
\* snapshot crosses it (buy: ask <= limit price; sell: bid >= limit price):
\* then it is FILLED for its full quantity by one trade at the limit price,
\* and otherwise it is PENDING with no trade.
C10_LimitExecutesIffCrossed ==
    [][\A n \in NewIds :
          LET o == orders'[n]
          IN (/\ o.order_type = "limit" /\ KnownSymbol(o) /\ o.quantity > 0
              /\ Truthy(o.price) /\ Val(o.price) > 0)
             => IF Crosses(o)
                THEN /\ o.status = "filled"
                     /\ o.filled_quantity = o.quantity
                     /\ Cardinality(TradesFor(trades', n)) = 1
                     /\ \A k \in TradesFor(trades', n) :
                           /\ trades'[k].price = Val(o.price)
                           /\ trades'[k].quantity = o.quantity
                ELSE /\ o.status = "pending"
                     /\ o.filled_quantity = 0
                     /\ TradesFor(trades', n) = {}]_vars

C10_Witness ==
    \E i, j \in DOMAIN orders :
        /\ orders[i].order_type = "limit" /\ orders[j].order_type = "limit"
        /\ orders[i].side = "buy" /\ orders[j].side = "buy"
        /\ orders[i].status = "filled"
        /\ Val(orders[i].price) > market_data[orders[i].symbol].ask
        /\ \E k \in DOMAIN trades :
              trades[k].order_id = i /\ trades[k].price = Val(orders[i].price)
        /\ orders[j].status = "pending"
        /\ Val(orders[j].price) < market_data[orders[j].symbol].ask

(***************************************************************************)
(* Rejection and cancellation results.                                      *)
(***************************************************************************)
\* C12: every place_order call that fails, whether validation failed or the
\* specification was malformed, adds exactly one record, created with status
\* REJECTED, and returns a failure that carries that record's order id and a
\* reason.
C12_FailureLeavesRejectedRecord ==
    [][(last'.op = "place_order" /\ ~last'.success)
         => /\ Len(orders') = Len(orders) + 1
            /\ orders'[Len(orders')].status = "rejected"
            /\ last'.order_id = Len(orders')
            /\ last'.error # ""
            /\ \A k \in DOMAIN orders : orders'[k] = orders[k]]_vars

\* C13: cancel_order on an id that is not stored fails with "Order not
\* found", and on an order of another user fails with "Unauthorized"; in both
\* cases no order and no trade changes.
C13_CancelNotFoundOrUnauthorized ==
    [][(last'.op = "cancel_order")
         => /\ (last'.order_id \notin DOMAIN orders)
                 => /\ ~last'.success
                    /\ last'.error = "Order not found"
                    /\ orders' = orders
                    /\ trades' = trades
            /\ (/\ last'.order_id \in DOMAIN orders
                /\ orders[last'.order_id].user_id # last'.user_id)
                 => /\ ~last'.success
                    /\ last'.error = "Unauthorized"
                    /\ orders' = orders
                    /\ trades' = trades]_vars

\* A foreign user's cancel of an open order has been refused.
C13_Witness ==
    /\ last.op = "cancel_order"
    /\ last.error = "Unauthorized"
    /\ last.order_id \in DOMAIN orders
    /\ orders[last.order_id].status = "pending"
    /\ orders[last.order_id].user_id # last.user_id

\* C14: cancel_order by the owner on a PENDING or PARTIALLY_FILLED order
\* succeeds and sets that order CANCELLED; its other fields, every other
\* order and the trades are unchanged.
C14_OwnerCancelOfOpenOrder ==
    [][(/\ last'.op = "cancel_order"
        /\ last'.order_id \in DOMAIN orders
        /\ orders[last'.order_id].user_id = last'.user_id
        /\ orders[last'.order_id].status \in {"pending", "partially_filled"})
         => /\ last'.success
            /\ orders' = [orders EXCEPT ![last'.order_id].status = "cancelled"]
            /\ trades' = trades]_vars

\* An accepted limit order was cancelled by its owner while another open
\* order of the same user stayed open.
C14_Witness ==
    /\ last.op = "cancel_order"
    /\ last.success
    /\ orders[last.order_id].order_type = "limit"
    /\ orders[last.order_id].status = "cancelled"
    /\ orders[last.order_id].filled_quantity = 0
    /\ \E k \in DOMAIN orders :
          /\ k # last.order_id
          /\ orders[k].user_id = last.user_id
          /\ orders[k].status = "pending"

(***************************************************************************)
(* Resting orders, time in force and expiry.                                *)
(***************************************************************************)
RestingCrossed(i) ==
    /\ i \in DOMAIN orders
    /\ orders[i].order_type = "limit"
    /\ orders[i].status = "pending"
    /\ Crosses(orders[i])

\* C11: a limit order that is PENDING when the snapshot crosses its limit
\* price is eventually filled (or has been cancelled by its owner): it does
\* not stay PENDING for ever.
C11_RestingLimitFilledOnCross ==
    \A i \in 1 .. MaxOrders :
        RestingCrossed(i) ~> (/\ i \in DOMAIN orders
                              /\ orders[i].status \in {"filled", "cancelled"})

\* C18: no order with time_in_force IOC or FOK is PENDING or
\* PARTIALLY_FILLED in a state between calls.
C18_IocFokNeverResting ==
    \A i \in DOMAIN orders :
        orders[i].time_in_force \in {"ioc", "fok"}
            => orders[i].status \notin {"pending", "partially_filled"}

\* C19: every FOK order has filled_quantity 0 or its full quantity, and its
\* trades sum to 0 or to its full quantity.
C19_FokAllOrNothing ==
    \A i \in DOMAIN orders :
        orders[i].time_in_force = "fok"
            => /\ orders[i].filled_quantity \in {0, orders[i].quantity}
               /\ SumQuantity(trades, i) \in {0, orders[i].quantity}

\* One FOK limit order of two units is filled in full by one trade while
\* another FOK order has no fill.
C19_Witness ==
    \E i, j \in DOMAIN orders :
        /\ orders[i].time_in_force = "fok"
        /\ orders[i].order_type = "limit"
        /\ orders[i].quantity = 2
        /\ orders[i].filled_quantity = 2
        /\ SumQuantity(trades, i) = 2
        /\ orders[j].time_in_force = "fok"
        /\ orders[j].filled_quantity = 0
        /\ SumQuantity(trades, j) = 0

\* C20: once the cutoff has passed no DAY order is PENDING or
\* PARTIALLY_FILLED.
C20_DayOrderExpiresAtCutoff ==
    clock = "after_cutoff"
        => \A i \in DOMAIN orders :
              orders[i].time_in_force = "day"
                  => orders[i].status \notin {"pending", "partially_filled"}

(***************************************************************************)
(* TWAP and VWAP strategies.                                                *)
(***************************************************************************)
\* The order records made by the current strategy run.
Children == (algo.first_id + 1) .. Len(orders)

RECURSIVE SumOrderQuantity(_, _, _)
SumOrderQuantity(os, lo, hi) ==
    IF lo > hi THEN 0 ELSE os[hi].quantity + SumOrderQuantity(os, lo, hi - 1)

\* The total quantity of the current run's child order records.
Allocated == SumOrderQuantity(orders, algo.first_id + 1, Len(orders))

TwapDone == algo.pc = "done" /\ algo.strategy = "TWAP"

C16_NoSliceAfterStrategyCancel ==
    [][(algo.cancel_requested /\ algo.pc \in {"twap", "vwap"})
         => Len(orders') = Len(orders)]_vars

StopCrossed(o) ==
    IF o.side = "sell" THEN market_data[o.symbol].bid <= Val(o.stop_price)
    ELSE market_data[o.symbol].ask >= Val(o.stop_price)

PendingStopCrossed(i) ==
    /\ i \in DOMAIN orders
    /\ orders[i].order_type \in {"stop_loss", "take_profit"}
    /\ orders[i].status = "pending"
    /\ StopCrossed(orders[i])

\* C21: a stop order that is PENDING when the snapshot crosses its stop
\* price is eventually executed (or has been cancelled by its owner): it
\* does not stay PENDING for ever.
C21_StopExecutedOnCross ==
    \A i \in 1 .. MaxOrders :
        PendingStopCrossed(i) ~> (/\ i \in DOMAIN orders
                                  /\ orders[i].status \in {"filled", "cancelled"})

\* C22: every PENDING trailing-stop order with a trail_amount has an
\* effective stop level that follows the best favorable price: for a sell
\* it is at least the current bid less trail_amount, for a buy at most the
\* current ask plus trail_amount.
C22_TrailingStopFollowsBestPrice ==
    \A i \in DOMAIN orders :
        (/\ orders[i].order_type = "trailing_stop"
         /\ orders[i].status = "pending"
         /\ Truthy(orders[i].trail_amount))
            => /\ ~IsNone(orders[i].stop_price)
               /\ IF orders[i].side = "sell"
                  THEN Val(orders[i].stop_price)
                         >= market_data[orders[i].symbol].bid
                              - Val(orders[i].trail_amount)
                  ELSE Val(orders[i].stop_price)
                         <= market_data[orders[i].symbol].ask
                              + Val(orders[i].trail_amount)

(***************************************************************************)
(* Fees, average fill price and the trade log.                              *)
(***************************************************************************)
\* The trades a step adds to the log.
NewTradeIds == (Len(trades) + 1) .. Len(trades')

\* C23: a trade made inside place_order for the order being placed, a
\* marketable limit order included, pays the taker rate:
\* fee = quantity x price x taker rate.
C23_ImmediateFillPaysTaker ==
    [][\A t \in NewTradeIds :
          trades'[t].order_id \in NewIds
              => trades'[t].fee
                   = trades'[t].quantity * trades'[t].price * taker_fee]_vars

RECURSIVE SumNotional(_, _)
SumNotional(ts, id) ==
    IF ts = <<>> THEN 0
    ELSE (IF Head(ts).order_id = id THEN Head(ts).quantity * Head(ts).price
          ELSE 0)
         + SumNotional(Tail(ts), id)

\* C24: for every order with filled_quantity > 0, average_fill_price times
\* the sum of its trade quantities equals the sum of quantity x price over
\* its trades.
C24_AverageFillPriceIsWeightedMean ==
    \A i \in DOMAIN orders :
        orders[i].filled_quantity > 0
            => orders[i].average_fill_price * SumQuantity(trades, i)
                 = SumNotional(trades, i)

\* A market sell of two units and a limit buy of two units are both filled.
C24_Witness ==
    \E i, j \in DOMAIN orders :
        /\ orders[i].order_type = "market"
        /\ orders[i].filled_quantity = 2
        /\ orders[i].average_fill_price = 999
        /\ orders[j].order_type = "limit"
        /\ orders[j].filled_quantity = 2
        /\ orders[j].average_fill_price = 1001
        /\ SumNotional(trades, i) + SumNotional(trades, j) = 4000

\* C25: every step keeps the trade log of the state before it as a prefix
\* of the log after it.
C25_TradeLogAppendOnly ==
    [][/\ Len(trades') >= Len(trades)
       /\ \A k \in DOMAIN trades : trades'[k] = trades[k]]_vars

\* With a trade in the log, a placement was rejected or failed, or an order
\* was cancelled.
C25_Witness ==
    /\ Len(trades) >= 1
    /\ \/ last.op = "place_order" /\ ~last.success
       \/ /\ last.op = "cancel_order"
          /\ last.success
          /\ orders[last.order_id].status = "cancelled"

(***************************************************************************)
(* Strategy results.                                                        *)
(***************************************************************************)
\* C28: when a strategy has returned although the placement of one of its
\* slices failed, its result is not a plain success: it is a failure or
\* carries the status "degraded".
C28_FailedSliceReportedDegraded ==
    (/\ algo.pc = "done"
     /\ ~algo.raised
     /\ Cardinality(Children) > Len(algo.orders_placed))
        => (~last.success \/ last.status = "degraded")

(***************************************************************************)
(* Validation order.                                                        *)
(***************************************************************************)
\* The reason of the first rule, in the order symbol, quantity, price, stop
\* price, trail parameters, that the stored order o breaks; "" if none.
FirstViolatedRule(o) ==
    IF o.symbol \notin DOMAIN market_data THEN "Invalid symbol"
    ELSE IF ~(o.quantity > 0) THEN "Quantity must be positive"
    ELSE IF o.order_type = "limit" /\ ~(~IsNone(o.price) /\ Val(o.price) > 0)
    THEN "Limit orders require a valid price"
    ELSE IF o.order_type \in {"stop_loss", "take_profit"}
            /\ ~(~IsNone(o.stop_price) /\ Val(o.stop_price) > 0)
    THEN "Stop orders require a valid stop price"
    ELSE IF o.order_type = "trailing_stop"
            /\ IsNone(o.trail_amount) /\ IsNone(o.trail_percent)
    THEN "Trailing stop orders require trail amount or trail percent"
    ELSE ""

\* The number of rules the stored order o breaks.
ViolationCount(o) ==
    (IF o.symbol \notin DOMAIN market_data THEN 1 ELSE 0)
    + (IF ~(o.quantity > 0) THEN 1 ELSE 0)
    + (IF o.order_type = "limit" /\ ~(~IsNone(o.price) /\ Val(o.price) > 0)
       THEN 1 ELSE 0)
    + (IF o.order_type \in {"stop_loss", "take_profit"}
          /\ ~(~IsNone(o.stop_price) /\ Val(o.stop_price) > 0)
       THEN 1 ELSE 0)
    + (IF o.order_type = "trailing_stop"
          /\ IsNone(o.trail_amount) /\ IsNone(o.trail_percent)
       THEN 1 ELSE 0)

\* C30: a placed specification is rejected exactly if it breaks a rule, and
\* the reason returned is that of the first rule it breaks in the order
\* symbol, quantity, price, stop price, trail parameters.
C30_FirstViolatedRuleReported ==
    [][\A n \in NewIds :
          LET o == orders'[n]
          IN IF FirstViolatedRule(o) = ""
             THEN o.status # "rejected" /\ last'.success
             ELSE /\ o.status = "rejected"
                  /\ ~last'.success
                  /\ last'.order_id = n
                  /\ last'.error = FirstViolatedRule(o)]_vars

\* A specification that breaks the quantity rule and a later rule was
\* rejected for its quantity, after one that breaks the symbol rule too was
\* rejected for its symbol.
C30_Witness ==
    /\ Len(orders) = 2
    /\ ViolationCount(orders[1]) = 2
    /\ orders[1].symbol \notin DOMAIN market_data
    /\ orders[1].status = "rejected"
    /\ ViolationCount(orders[2]) = 2
    /\ orders[2].symbol \in DOMAIN market_data
    /\ orders[2].status = "rejected"
    /\ last.op = "place_order"
    /\ last.error = "Quantity must be positive"

(***************************************************************************)
(* Queries.                                                                 *)
(***************************************************************************)
\* A query step leaves the stores, the market data and the books as they
\* were.
QueryFrame ==
    /\ orders' = orders
    /\ trades' = trades
    /\ market_data' = market_data
    /\ order_books' = order_books

\* The stored orders of user u, with status f when a non-empty filter f is
\* given.
OrdersOf(u, f) ==
    {i \in DOMAIN orders :
        /\ orders[i].user_id = u
        /\ (~IsNone(f) /\ Val(f) # "") => orders[i].status = Val(f)}

\* The trades whose order belongs to user u.
TradesOf(u) ==
    {t \in DOMAIN trades :
        \E i \in DOMAIN orders :
            orders[i].id = trades[t].order_id /\ orders[i].user_id = u}

\* C26: get_user_orders(u, f) returns, once each, exactly the stored orders
\* of u (with status f when a filter is given) and get_user_trades(u)
\* exactly the trades of u's orders, whatever other users have placed; both
\* change no state.
C26_QueriesOwnerScoped ==
    [][/\ last'.op = "get_user_orders"
          => /\ last'.success
             /\ QueryFrame
             /\ Len(last'.orders)
                  = Cardinality(OrdersOf(last'.user_id, last'.status_filter))
             /\ \A k \in DOMAIN last'.orders :
                   /\ last'.orders[k].id
                        \in OrdersOf(last'.user_id, last'.status_filter)
                   /\ last'.orders[k] = orders[last'.orders[k].id]
             /\ \A i \in OrdersOf(last'.user_id, last'.status_filter) :
                   \E k \in DOMAIN last'.orders : last'.orders[k] = orders[i]
       /\ last'.op = "get_user_trades"
          => /\ last'.success
             /\ QueryFrame
             /\ Len(last'.trades) = Cardinality(TradesOf(last'.user_id))
             /\ \A k \in DOMAIN last'.trades :
                   /\ last'.trades[k].id \in TradesOf(last'.user_id)
                   /\ last'.trades[k] = trades[last'.trades[k].id]
             /\ \A t \in TradesOf(last'.user_id) :
                   \E k \in DOMAIN last'.trades : last'.trades[k] = trades[t]]_vars

\* With orders of both users stored and a trade of each, the orders of one
\* user were listed.
C26_Witness ==
    /\ last.op = "get_user_orders"
    /\ last.user_id = "u1"
    /\ IsNone(last.status_filter)
    /\ Len(last.orders) = 1
    /\ Len(orders) = 2
    /\ \E i \in DOMAIN orders : orders[i].user_id = "u2"
    /\ Len(trades) = 2

\* C27: get_order_status(id) returns success with the stored order of that
\* id, in its current state, for every id in the store and "Order not
\* found" for any other id; it changes no state.
C27_OrderStatusRoundTrip ==
    [][last'.op = "get_order_status"
         => /\ QueryFrame
            /\ IF last'.order_id \in DOMAIN orders
               THEN /\ last'.success
                    /\ last'.order = Some(orders[last'.order_id])
                    /\ Val(last'.order).id = last'.order_id
               ELSE /\ ~last'.success
                    /\ last'.error = "Order not found"]_vars

\* The second of two stored orders was looked up after it had been
\* cancelled.
C27_Witness ==
    /\ last.op = "get_order_status"
    /\ last.success
    /\ last.order_id = 2
    /\ Val(last.order).order_type = "limit"
    /\ Val(last.order).status = "cancelled"
    /\ orders[1].status = "filled"

\* Bid prices strictly descending and ask prices strictly ascending, level
\* by level.
BookSorted(book) ==
    /\ \A i \in 1 .. Len(book.bids) - 1 :
          book.bids[i].price > book.bids[i + 1].price
    /\ \A i \in 1 .. Len(book.asks) - 1 :
          book.asks[i].price < book.asks[i + 1].price

C31_RejectedNeverLive ==
    \A i \in DOMAIN orders :
        FirstViolatedRule(orders[i]) # ""
            => /\ orders[i].status \notin {"pending", "partially_filled", "filled"}
               /\ orders[i].filled_quantity = 0
               /\ TradesFor(trades, i) = {}
               /\ \A c \in ThreadIds :
                     thr[c].pc = "place_exec" => thr[c].order_id # i

\* A rejected record is in the store while another call is between storing
\* its order and executing it.
C31_Witness ==
    \E i \in DOMAIN orders, c \in ThreadIds :
        /\ FirstViolatedRule(orders[i]) # ""
        /\ orders[i].status = "rejected"
        /\ thr[c].pc = "place_exec"

(***************************************************************************)
(* OCO pairs: sides and failed creations.                                   *)
(***************************************************************************)
\* C34: the two siblings of every OCO pair are orders on the same side, with
\* the same quantity, on the same symbol and for the same owner.
C34_OcoSiblingsSameSide ==
    \A k \in DOMAIN oco_pairs :
        Stored(k) =>
            /\ StopSibling(k).side = LimitSibling(k).side
            /\ StopSibling(k).quantity = LimitSibling(k).quantity
            /\ StopSibling(k).symbol = LimitSibling(k).symbol
            /\ StopSibling(k).user_id = LimitSibling(k).user_id

\* C39: after a create_oco_order call that returned success = False, neither
\* sibling is in the store as a PENDING order or as a FILLED order.
C39_FailedOcoLeavesNothingLive ==
    \A k \in DOMAIN oco_pairs :
        ~oco_pairs[k].success =>
            \A id \in {oco_pairs[k].limit_order_id, oco_pairs[k].stop_order_id} :
                id \in DOMAIN orders =>
                    orders[id].status \notin {"pending", "filled"}

(***************************************************************************)
(* Statuses, fills and the effects of place_order.                          *)
(***************************************************************************)
\* C35: every stored order is PENDING, FILLED, CANCELLED or REJECTED (never
\* PARTIALLY_FILLED or EXPIRED), its filled_quantity is 0 or its whole
\* quantity, and every trade is for the whole quantity of its order.
C35_FourStatusesFullFills ==
    /\ \A i \in DOMAIN orders :
          /\ orders[i].status \in {"pending", "filled", "cancelled", "rejected"}
          /\ orders[i].filled_quantity \in {0, orders[i].quantity}
    /\ \A k \in DOMAIN trades :
          /\ trades[k].order_id \in DOMAIN orders
          /\ trades[k].quantity = orders[trades[k].order_id].quantity

\* The store holds a limit order filled for its whole quantity of 2 and an
\* order that was cancelled.
C35_Witness ==
    \E i, j \in DOMAIN orders :
        /\ orders[i].order_type = "limit"
        /\ orders[i].quantity = 2
        /\ orders[i].status = "filled"
        /\ orders[i].filled_quantity = 2
        /\ orders[j].status = "cancelled"

\* C36: each trade names a stored FILLED order with the trade's symbol, side
\* and quantity; each FILLED order has exactly one trade; every other order
\* has no trade and filled_quantity 0.
C36_TradesMatchFilledOrders ==
    /\ \A k \in DOMAIN trades :
          /\ trades[k].order_id \in DOMAIN orders
          /\ orders[trades[k].order_id].status = "filled"
          /\ orders[trades[k].order_id].symbol = trades[k].symbol
          /\ orders[trades[k].order_id].side = trades[k].side
          /\ orders[trades[k].order_id].quantity = trades[k].quantity
    /\ \A i \in DOMAIN orders :
          IF orders[i].status = "filled"
          THEN Cardinality(TradesFor(trades, i)) = 1
          ELSE TradesFor(trades, i) = {} /\ orders[i].filled_quantity = 0

\* Two FILLED orders with one trade each, next to nothing else.
C36_Witness ==
    /\ Len(trades) = 2
    /\ \E i, j \in DOMAIN orders :
          /\ i # j
          /\ orders[i].status = "filled"
          /\ orders[j].status = "filled"
          /\ trades[1].order_id # trades[2].order_id

\* C37: a place_order call adds one order under the next fresh id, or none
\* when it raised; appends at most one trade, for the new order; and leaves
\* every earlier order, every earlier trade and the market data unchanged.
C37_PlaceOrderFrame ==
    [][last'.op = "place_order" =>
          /\ Len(orders') = Len(orders) + (IF last'.error = "exception" THEN 0 ELSE 1)
          /\ \A i \in NewIds : orders'[i].id = i /\ last'.order_id = i
          /\ \A i \in DOMAIN orders : orders'[i] = orders[i]
          /\ Len(trades') \in {Len(trades), Len(trades) + 1}
          /\ \A k \in NewTradeIds : trades'[k].order_id \in NewIds
          /\ \A k \in DOMAIN trades : trades'[k] = trades[k]
          /\ market_data' = market_data
          /\ order_books' = order_books]_vars

\* A placement that filled at once was made while a FILLED order and its
\* trade were already stored.
C37_Witness ==
    /\ last.op = "place_order"
    /\ last.success
    /\ Len(orders) = 2
    /\ Len(trades) = 2
    /\ last.order_id = 2
    /\ orders[2].status = "filled"

\* C38: a place_order call for a specification that lacks a required key or
\* carries a side, order_type or time_in_force outside its enumeration
\* returns success = False with an error and leaves the order store and the
\* trade log unchanged.
C38_MalformedSpecificationLeavesNoRecord ==
    [][\A d \in ValidateInputs :
          (/\ \/ ~({"user_id", "symbol", "side", "order_type", "quantity"}
                     \subseteq DOMAIN d)
              \/ d.side \notin {"buy", "sell"}
              \/ d.order_type \notin OrderType
              \/ d.time_in_force \notin TimeInForce
           /\ PlaceOrder(d))
          => /\ ~last'.success
             /\ last'.error # ""
             /\ orders' = orders
             /\ trades' = trades]_vars

\* A malformed specification has just been refused while the store already
\* holds an order and a trade.
C38_Witness ==
    /\ last.op = "place_order"
    /\ last.error = "exception"
    /\ Len(orders) > 0
    /\ Len(trades) > 0

(***************************************************************************)
(* TWAP schedule.                                                           *)
(***************************************************************************)
\* C33: TWAP child i (counted from 0) of N is not placed before
\* i x duration_minutes / N minutes have elapsed since the strategy started.
C33_TwapChildrenSpaced ==
    [][(algo.pc = "twap" /\ algo'.i = algo.i + 1)
          => algo.elapsed * algo.num_chunks >= algo.i * algo.duration_minutes]_vars

(***************************************************************************)
(* VWAP allocation.                                                         *)
(***************************************************************************)
\* The exact product total_quantity x weight of bucket i.
ExactSlot(i) == Quot(algo.total_quantity * volume_profile[i], WeightScale)

Min(a, b) == IF a < b THEN a ELSE b

\* Every bucket of the profile got a child order and every child was accepted.
AllSlicesAccepted(a, os) ==
    /\ a.strategy = "VWAP"
    /\ a.pc = "done"
    /\ Len(a.orders_placed) = Len(volume_profile)
    /\ Len(os) - a.first_id = Len(volume_profile)

\* One rounding step for each of the products and subtractions of a call.
RoundingTolerance == 2 * Len(volume_profile) + 1

=============================================================================
